---- MODULE Spec2Model ----
(***************************************************************************)
(* A model of unfurl's URL and JSON parsers (parsers/parse_url.py and      *)
(* parsers/parse_json.py) together with the breadth-first queue that feeds *)
(* them.  Node values are strings, integers, None or decoded JSON values;  *)
(* strings are TLA+ strings, read one character at a time with SubSeq.     *)
(***************************************************************************)
EXTENDS Integers, Sequences, FiniteSets, TLC

(***************************************************************************)
(* Python values.  Every value carries a tag so that values of different   *)
(* Python types are never compared field by field.                         *)
(***************************************************************************)
PyStr(s) == [t |-> "str", v |-> s]

PyInt(n) == [t |-> "int", v |-> n]

PyNone == [t |-> "none", v |-> ""]

PyBool(b) == [t |-> "bool", v |-> b]

PyDict(items) == [t |-> "dict", v |-> items]

PyList(elems) == [t |-> "list", v |-> elems]

IsStr(x) == x.t = "str"

\* Python truthiness of an optional string or integer attribute.
Truthy(x) ==
    CASE x.t = "none" -> FALSE
      [] x.t = "str" -> x.v # ""
      [] x.t = "int" -> x.v # 0
      [] OTHER -> TRUE

(***************************************************************************)
(* str methods                                                             *)
(***************************************************************************)
\* s[i-1:j] in Python's terms: positions i to j, cut to the string's own
Slice(s, i, j) ==
    LET a == IF i < 1 THEN 1 ELSE i
        b == IF j > Len(s) THEN Len(s) ELSE j
    IN  IF a > b THEN "" ELSE SubSeq(s, a, b)

Ch(s, i) == Slice(s, i, i)

From(s, i) == Slice(s, i, Len(s))

Upto(s, i) == Slice(s, 1, i)

MinOf(S) == CHOOSE i \in S : \A j \in S : i <= j

\* s.find(c, start): the first position >= start holding c; 0 when there is none
\* (positions are 1-based, Python's are 0-based with -1 for none).
\* The search takes the left half of lo..hi and then the right half.
RECURSIVE FindIn(_, _, _, _)
RECURSIVE FindRight(_, _, _, _, _)
FindIn(s, c, lo, hi) ==
    IF lo > hi THEN 0
    ELSE IF lo = hi THEN (IF SubSeq(s, lo, lo) = c THEN lo ELSE 0)
    ELSE FindRight(FindIn(s, c, lo, (lo + hi) \div 2), s, c, (lo + hi) \div 2 + 1, hi)

FindRight(left, s, c, lo, hi) == IF left # 0 THEN left ELSE FindIn(s, c, lo, hi)

Find(s, c, start) == FindIn(s, c, start, Len(s))

\* s.rfind(c), searching down from position i: the right half of lo..hi and
\* then the left half
RECURSIVE RFindIn(_, _, _, _)
RECURSIVE RFindLeft(_, _, _, _, _)
RFindIn(s, c, lo, hi) ==
    IF lo > hi THEN 0
    ELSE IF lo = hi THEN (IF SubSeq(s, lo, lo) = c THEN lo ELSE 0)
    ELSE RFindLeft(RFindIn(s, c, (lo + hi) \div 2 + 1, hi), s, c, lo, (lo + hi) \div 2)

RFindLeft(right, s, c, lo, hi) == IF right # 0 THEN right ELSE RFindIn(s, c, lo, hi)

RFindFrom(s, c, i) == RFindIn(s, c, 1, i)

\* s.rfind(c)
RFind(s, c) == RFindFrom(s, c, Len(s))

\* c in s
Has(s, c) == Find(s, c, 1) # 0

\* s.count(c)
Count(s, c) == Cardinality({i \in 1..Len(s) : Ch(s, i) = c})

\* s.partition(c): <<before, found, after>>
Partition(s, c) ==
    LET i == Find(s, c, 1)
    IN  IF i = 0 THEN <<s, FALSE, "">>
        ELSE <<Upto(s, i - 1), TRUE, From(s, i + 1)>>

\* s.rpartition(c): <<before, found, after>>
RPartition(s, c) ==
    LET i == RFind(s, c)
    IN  IF i = 0 THEN <<"", FALSE, s>>
        ELSE <<Upto(s, i - 1), TRUE, From(s, i + 1)>>

\* s.split(c): always at least one part
RECURSIVE Split(_, _)
Split(s, c) ==
    LET i == Find(s, c, 1)
    IN  IF i = 0 THEN <<s>>
        ELSE <<Upto(s, i - 1)>> \o Split(From(s, i + 1), c)

\* s.split(c, 1)
Split1(s, c) ==
    LET i == Find(s, c, 1)
    IN  IF i = 0 THEN <<s>>
        ELSE <<Upto(s, i - 1), From(s, i + 1)>>

\* s.replace(a, b) for single characters, half by half
RECURSIVE Replace(_, _, _)
Replace(s, a, b) ==
    IF Len(s) <= 1 THEN (IF s = a THEN b ELSE s)
    ELSE Replace(Upto(s, Len(s) \div 2), a, b) \o Replace(From(s, Len(s) \div 2 + 1), a, b)

UpperLetters == "ABCDEFGHIJKLMNOPQRSTUVWXYZ"

LowerLetters == "abcdefghijklmnopqrstuvwxyz"

DigitChars == "0123456789"

IsAlpha(c) == Has(UpperLetters, c) \/ Has(LowerLetters, c)

IsDigit(c) == Has(DigitChars, c)

\* c.lower() for one character (or none)
LowerChar(c, i) == IF i = 0 THEN c ELSE Ch(LowerLetters, i)

\* s.lower(), half by half
RECURSIVE Lower(_)
Lower(s) ==
    IF Len(s) <= 1 THEN LowerChar(s, Find(UpperLetters, s, 1))
    ELSE Lower(Upto(s, Len(s) \div 2)) \o Lower(From(s, Len(s) \div 2 + 1))

\* s.lstrip(" "): urlsplit strips leading C0 control characters and spaces; the
\* space is the only one of them the model's strings hold.
RECURSIVE LStrip(_)
LStrip(s) == IF s # "" /\ Ch(s, 1) = " " THEN LStrip(From(s, 2)) ELSE s

\* int(s) for a string of ASCII digits
RECURSIVE ToInt(_)
ToInt(s) ==
    IF s = "" THEN 0
    ELSE 10 * ToInt(Upto(s, Len(s) - 1)) + (Find(DigitChars, Ch(s, Len(s)), 1) - 1)

AllDigits(s) == s # "" /\ \A i \in 1..Len(s) : IsDigit(Ch(s, i))

(***************************************************************************)
(* ipaddress.ip_address, as urlsplit uses it on a bracketed host: TRUE     *)
(* when the text is a valid IPv6 address.  The model's strings hold no     *)
(* '.', so no IPv4 address, no IPv4 suffix and no IPvFuture form occurs,   *)
(* before the optional '%' scope.                                          *)
(***************************************************************************)
HexChars == "0123456789abcdefABCDEF"

IsHextet(p) == Len(p) >= 1 /\ Len(p) <= 4 /\ \A i \in 1..Len(p) : Has(HexChars, Ch(p, i))

IsIPv6Parts(parts) ==
    LET n == Len(parts)
        skips == {i \in 2..(n - 1) : parts[i] = ""}
    IN  /\ n >= 3
        /\ n <= 9
        /\ Cardinality(skips) <= 1
        /\ IF skips # {}
           THEN LET k == CHOOSE i \in skips : TRUE
                    hi == IF parts[1] = "" THEN k - 2 ELSE k - 1
                    lo == IF parts[n] = "" THEN n - k - 1 ELSE n - k
                IN  /\ (parts[1] = "" => hi = 0)
                    /\ (parts[n] = "" => lo = 0)
                    /\ 8 - (hi + lo) >= 1
           ELSE n = 8 /\ parts[1] # "" /\ parts[n] # ""
        /\ \A i \in 1..n : parts[i] = "" \/ IsHextet(parts[i])

IsIPv6(h) == IsIPv6Parts(Split(h, ":"))

\* IPv6Address._split_scope_id and the address before the scope
IsScopedIPv6(scoped) ==
    /\ (scoped[2] => scoped[3] # "" /\ ~Has(scoped[3], "%"))
    /\ IsIPv6(scoped[1])

\* urllib.parse._check_bracketed_host: TRUE when it returns, FALSE when it raises
CheckBracketedHost(h) ==
    IF h # "" /\ Ch(h, 1) = "v" THEN FALSE ELSE IsScopedIPv6(Partition(h, "%"))

(***************************************************************************)
(* urllib.parse.urlsplit and urlparse                                      *)
(***************************************************************************)
SchemeChars == UpperLetters \o LowerLetters \o DigitChars \o "+-."

UsesParams ==
    {"", "ftp", "hdl", "prospero", "http", "imap", "https", "shttp", "rtsp",
     "rtspu", "sip", "sips", "mms", "sftp", "tel"}

\* The scheme step of urlsplit: <<scheme, rest>>
SplitScheme(url) ==
    LET i == Find(url, ":", 1)
    IN  IF /\ i > 1
           /\ IsAlpha(Ch(url, 1))
           /\ \A j \in 1..(i - 1) : Has(SchemeChars, Ch(url, j))
        THEN <<Lower(Upto(url, i - 1)), From(url, i + 1)>>
        ELSE <<"", url>>

\* urllib.parse._splitnetloc(url, 2): <<netloc, rest>>
SplitNetloc(url) ==
    LET ends == {i \in 3..Len(url) : Ch(url, i) \in {"/", "?", "#"}}
        delim == IF ends = {} THEN Len(url) + 1 ELSE MinOf(ends)
    IN  <<Slice(url, 3, delim - 1), From(url, delim)>>

\* The bracket checks of urlsplit: TRUE when none raises ValueError.  checked
\* tells whether the interpreter validates the bracketed host (3.11.4 and later).
NetlocOk(netloc, checked) ==
    LET open == Has(netloc, "[")
        close == Has(netloc, "]")
    IN  /\ open = close
        /\ (checked /\ open) =>
               CheckBracketedHost(Partition(Partition(netloc, "[")[3], "]")[1])

\* urllib.parse._splitparams: <<path, params>>
SplitParams(url) ==
    LET i == IF Has(url, "/") THEN Find(url, ";", RFind(url, "/")) ELSE Find(url, ";", 1)
    IN  IF i = 0 THEN <<url, "">> ELSE <<Upto(url, i - 1), From(url, i + 1)>>

ParseFailed ==
    [ok |-> FALSE, scheme |-> "", netloc |-> "", path |-> "", params |-> "",
     query |-> "", fragment |-> ""]

\* urlparse after urlsplit: the params leave the path
WithParams(scheme, netloc, url, query, fragment) ==
    LET pa == IF scheme \in UsesParams /\ Has(url, ";")
              THEN SplitParams(url) ELSE <<url, "">>
    IN  [ok |-> TRUE, scheme |-> scheme, netloc |-> netloc, path |-> pa[1],
         params |-> pa[2], query |-> query, fragment |-> fragment]

\* if '?' in url: url, query = url.split('?', 1)
WithQuery(scheme, netloc, url, fragment) ==
    IF Has(url, "?")
    THEN WithParams(scheme, netloc, Split1(url, "?")[1], Split1(url, "?")[2], fragment)
    ELSE WithParams(scheme, netloc, url, "", fragment)

\* if '#' in url: url, fragment = url.split('#', 1)
WithFragment(scheme, netloc, url) ==
    IF Has(url, "#")
    THEN WithQuery(scheme, netloc, Split1(url, "#")[1], Split1(url, "#")[2])
    ELSE WithQuery(scheme, netloc, url, "")

\* The netloc checked, or ValueError
WithNetloc(scheme, nl, checked) ==
    IF NetlocOk(nl[1], checked) THEN WithFragment(scheme, nl[1], nl[2]) ELSE ParseFailed

\* if url[:2] == '//': netloc, url = _splitnetloc(url, 2)
AfterScheme(scheme, url, checked) ==
    IF Upto(url, 2) = "//" THEN WithNetloc(scheme, SplitNetloc(url), checked)
    ELSE WithFragment(scheme, "", url)

UrlparseStripped(sch, checked) == AfterScheme(sch[1], sch[2], checked)

\* urllib.parse.urlparse(url); ok is FALSE when it raises ValueError
Urlparse(url, checked) == UrlparseStripped(SplitScheme(LStrip(url)), checked)

\* username, have_password, password = userinfo.partition(':')
UserAndPassword(up) == <<PyStr(up[1]), IF up[2] THEN PyStr(up[3]) ELSE PyNone>>

UserInfoOf(at) ==
    IF at[2] THEN UserAndPassword(Partition(at[1], ":")) ELSE <<PyNone, PyNone>>

\* ParseResult._userinfo: <<username, password>>
UserInfo(netloc) == UserInfoOf(RPartition(netloc, "@"))

OrNone(s) == IF s = "" THEN PyNone ELSE PyStr(s)

\* hostname, _, port = bracketed.partition(']'); _, _, port = port.partition(':')
BracketedHostInfo(inner) == <<inner[1], OrNone(Partition(inner[3], ":")[3])>>

\* hostname, _, port = hostinfo.partition(':')
PlainHostInfo(plain) == <<plain[1], OrNone(plain[3])>>

HostInfoOf(hostinfo, br) ==
    IF br[2] THEN BracketedHostInfo(Partition(br[3], "]"))
    ELSE PlainHostInfo(Partition(hostinfo, ":"))

HostInfoAfterAt(hostinfo) == HostInfoOf(hostinfo, Partition(hostinfo, "["))

\* ParseResult._hostinfo: <<hostname, port>>, the port PyNone when empty
HostInfo(netloc) == HostInfoAfterAt(RPartition(netloc, "@")[3])

\* ParseResult.username
Username(netloc) == UserInfo(netloc)[1]

\* ParseResult.password
Password(netloc) == UserInfo(netloc)[2]

\* hostname.lower() + percent + zone
LowerHost(z) == PyStr(Lower(z[1]) \o (IF z[2] THEN "%" ELSE "") \o z[3])

HostnameOf(host) == IF host = "" THEN PyNone ELSE LowerHost(Partition(host, "%"))

\* ParseResult.hostname: lower-cased up to a '%' zone; PyNone when empty
Hostname(netloc) == HostnameOf(HostInfo(netloc)[1])

MaxPort == 65535

\* Leading zeros do not change int(s); without them a port in range has at most
\* five digits.
RECURSIVE StripZeros(_)
StripZeros(s) == IF Len(s) > 1 /\ Ch(s, 1) = "0" THEN StripZeros(From(s, 2)) ELSE s

OutOfRange(digits) == Len(digits) > 5 \/ ToInt(digits) > MaxPort

PortOfRaises(port) ==
    port.t = "str" /\ (~AllDigits(port.v) \/ OutOfRange(StripZeros(port.v)))

\* ParseResult.port raises ValueError: not all digits, or out of range
PortRaises(netloc) == PortOfRaises(HostInfo(netloc)[2])

PortOf(port) == IF port.t = "none" THEN PyNone ELSE PyInt(ToInt(StripZeros(port.v)))

\* ParseResult.port when it does not raise
Port(netloc) == PortOf(HostInfo(netloc)[2])

(***************************************************************************)
(* urllib.parse.unquote and parse_qs                                       *)
(***************************************************************************)
\* The printable ASCII characters a string of the model can hold, in code order:
\* codes 32 (space) to 95, and 97 to 126.  Code 96, the backquote, cannot be
\* written in a string here and is left out.
PrintableLow ==
    " !\"#$%&'()*+,-./0123456789:;<=>?@ABCDEFGHIJKLMNOPQRSTUVWXYZ[\\]^_"

PrintableHigh == "abcdefghijklmnopqrstuvwxyz{|}~"

FirstPrintable == 32

Backquote == 96

LastPrintable == 126

IsPrintable(code) == code >= FirstPrintable /\ code <= LastPrintable /\ code # Backquote

Chr(code) ==
    IF code < Backquote THEN Ch(PrintableLow, code - FirstPrintable + 1)
    ELSE Ch(PrintableHigh, code - Backquote)

IsHex(c) == Has(HexChars, c)

HexVal(c) == Find("0123456789abcdef", Lower(c), 1) - 1

\* urllib.parse.unquote: each %XX with two hex digits becomes the character of
\* that code.  Codes outside the printable ASCII range (control characters, and
\* the bytes of UTF-8 sequences) are not characters of the model's strings: the
\* seeds hold '%' only in front of a printable code.
RECURSIVE Unquote(_)
Unquote(s) ==
    LET i == Find(s, "%", 1)
        code == 16 * HexVal(Ch(s, i + 1)) + HexVal(Ch(s, i + 2))
    IN  IF i = 0 THEN s
        ELSE IF /\ i + 2 <= Len(s)
                /\ IsHex(Ch(s, i + 1))
                /\ IsHex(Ch(s, i + 2))
                /\ IsPrintable(code)
             THEN Upto(s, i - 1) \o Chr(code) \o Unquote(From(s, i + 3))
             ELSE Upto(s, i) \o Unquote(From(s, i + 1))

\* urllib.parse.parse_qsl(qs) with its defaults: blank values dropped, '&' the
\* separator, fields without '=' skipped.  A sequence of <<name, value>>.
\* One field: nv = name_value.split('=', 1)
QslField(nv) ==
    IF Len(nv) = 2 /\ nv[2] # ""
    THEN <<  <<Unquote(Replace(nv[1], "+", " ")), Unquote(Replace(nv[2], "+", " "))>>  >>
    ELSE <<>>

RECURSIVE QslFields(_)
QslFields(fields) ==
    IF fields = <<>> THEN <<>>
    ELSE QslField(Split1(Head(fields), "=")) \o QslFields(Tail(fields))

ParseQsl(qs) == IF qs = "" THEN <<>> ELSE QslFields(Split(qs, "&"))

\* The values of one name, in order of appearance
RECURSIVE ValuesOf(_, _)
ValuesOf(pairs, name) ==
    IF pairs = <<>> THEN <<>>
    ELSE (IF Head(pairs)[1] = name THEN <<Head(pairs)[2]>> ELSE <<>>)
         \o ValuesOf(Tail(pairs), name)

\* The names, each once, in order of first appearance (the dict's key order)
RECURSIVE NamesOf(_, _)
NamesOf(pairs, seen) ==
    IF pairs = <<>> THEN <<>>
    ELSE LET name == Head(pairs)[1]
         IN  IF name \in seen THEN NamesOf(Tail(pairs), seen)
             ELSE <<name>> \o NamesOf(Tail(pairs), seen \cup {name})

GroupByName(pairs, names) ==
    [i \in 1..Len(names) |-> [key |-> names[i], values |-> ValuesOf(pairs, names[i])]]

DictOfPairs(pairs) == GroupByName(pairs, NamesOf(pairs, {}))

\* urllib.parse.parse_qs(qs): the dict as a sequence of [key, values] in key order
ParseQs(qs) == DictOfPairs(ParseQsl(qs))

(***************************************************************************)
(* The two regular expressions of parse_url.py, as fullmatch decides them: *)
(*     ((?P<key>[^d=]+)=(?P<value>[^d=]+)d)+(?P<last_key>[^d=]+)=...        *)
(* matches the whole string exactly when splitting it on the delimiter d   *)
(* gives two or more pieces, each with exactly one '=' that has a          *)
(* character on both sides.                                                *)
(***************************************************************************)
IsKeyValue(piece) ==
    /\ Count(piece, "=") = 1
    /\ Ch(piece, 1) # "="
    /\ Ch(piece, Len(piece)) # "="

AllKeyValue(pieces) ==
    Len(pieces) >= 2 /\ \A i \in 1..Len(pieces) : IsKeyValue(pieces[i])

DelimitedPairsMatch(s, d) == AllKeyValue(Split(s, d))

\* pipe_delimited_pairs_re.fullmatch
PipeMatch(s) == DelimitedPairsMatch(s, "|")

\* amp_delimited_pairs_re.fullmatch
AmpMatch(s) == DelimitedPairsMatch(s, "&")

(***************************************************************************)
(* parse_url.run.  A child is what add_to_queue is given: data_type, key   *)
(* and value (the hover text, the label and the edge style are display     *)
(* only).  The result is the children in the order they are added, and     *)
(* whether the call ended by raising.                                      *)
(***************************************************************************)
Child(data_type, key, value) == [data_type |-> data_type, key |-> key, value |-> value]

Returns(kids) == [kids |-> kids, raised |-> FALSE]

Raises(kids) == [kids |-> kids, raised |-> TRUE]

If(cond, kids) == IF cond THEN kids ELSE <<>>

\* if parsed_url.netloc == parsed_url.hostname: ... else: ...
HostOrAuthority(netloc, hostname) ==
    IF hostname.t = "str" /\ hostname.v = netloc
    THEN <<Child("url.hostname", PyNone, hostname)>>
    ELSE <<Child("url.authority", PyNone, PyStr(netloc))>>

\* The url branch with only the scheme and the host under the netloc test
UrlChildrenUnguarded(parsed_url) ==
    IF ~parsed_url.ok THEN Raises(<<>>)
    ELSE Returns(
        If(parsed_url.netloc # "" /\ parsed_url.scheme # "",
           <<Child("url.scheme", PyStr("Scheme"), PyStr(parsed_url.scheme))>>)
        \o If(parsed_url.netloc # "",
              HostOrAuthority(parsed_url.netloc, Hostname(parsed_url.netloc)))
        \o If(parsed_url.path # "", <<Child("url.path", PyNone, PyStr(parsed_url.path))>>)
        \o If(parsed_url.query # "", <<Child("url.query", PyNone, PyStr(parsed_url.query))>>)
        \o If(parsed_url.fragment # "",
              <<Child("url.fragment", PyNone, PyStr(parsed_url.fragment))>>))

UrlChildren(parsed_url) ==
    IF ~parsed_url.ok THEN Raises(<<>>)
    ELSE IF parsed_url.netloc = "" THEN Returns(<<>>)
    ELSE Returns(
        If(parsed_url.scheme # "",
           <<Child("url.scheme", PyStr("Scheme"), PyStr(parsed_url.scheme))>>)
        \o HostOrAuthority(parsed_url.netloc, Hostname(parsed_url.netloc))
        \o If(parsed_url.path # "", <<Child("url.path", PyNone, PyStr(parsed_url.path))>>)
        \o If(parsed_url.query # "", <<Child("url.query", PyNone, PyStr(parsed_url.query))>>)
        \o If(parsed_url.fragment # "",
              <<Child("url.fragment", PyNone, PyStr(parsed_url.fragment))>>))

\* data_type == 'url'
UrlBranch(value, checked) == UrlChildren(Urlparse(value, checked))

\* data_type == 'url.path'
RECURSIVE Segments(_, _)
Segments(parts, n) ==
    IF parts = <<>> THEN <<>>
    ELSE If(Head(parts) # "", <<Child("url.path.segment", PyInt(n), PyStr(Head(parts)))>>)
         \o Segments(Tail(parts), n + 1)

\* The segments numbered from 1, as the hover text of a segment says
PathChildrenFromOne(path_segments) ==
    Returns(If(Len(path_segments) > 2, Segments(path_segments, 1)))

PathChildren(path_segments) ==
    Returns(If(Len(path_segments) > 2, Segments(path_segments, 0)))

PathBranch(value) == PathChildren(Split(value, "/"))

\* data_type == 'url.query' or 'url.fragment'
\* One child for a key, carrying its first value
PairsOfKeyCollapsed(key, values) ==
    <<[data_type |-> "url.query.pair", key |-> PyStr(key), value |-> PyStr(Head(values))]>>

RECURSIVE PairsOfKey(_, _)
PairsOfKey(key, values) ==
    IF values = <<>> THEN <<>>
    ELSE <<Child("url.query.pair", PyStr(key), PyStr(Head(values)))>>
         \o PairsOfKey(key, Tail(values))

RECURSIVE PairsOfDict(_)
PairsOfDict(parsed_qs) ==
    IF parsed_qs = <<>> THEN <<>>
    ELSE PairsOfKey(Head(parsed_qs).key, Head(parsed_qs).values)
         \o PairsOfDict(Tail(parsed_qs))

QueryBranch(value) == Returns(PairsOfDict(ParseQs(value)))

\* The username, password and hostname children, added before the port is read
UptoHost(username, password, hostname) ==
    If(Truthy(username), <<Child("url.username", PyStr("Username"), username)>>)
    \o If(Truthy(password), <<Child("url.password", PyStr("Password"), password)>>)
    \o <<Child("url.hostname", PyStr("Host"), hostname)>>

\* if parsed_authority.port: ...
WithPort(upto_host, port) ==
    Returns(upto_host \o If(Truthy(port), <<Child("url.port", PyStr("Port"), port)>>))

AuthorityParts(netloc, upto_host) ==
    IF PortRaises(netloc) THEN Raises(upto_host) ELSE WithPort(upto_host, Port(netloc))

AuthorityChildren(parsed_authority) ==
    IF ~parsed_authority.ok THEN Raises(<<>>)
    ELSE AuthorityParts(parsed_authority.netloc,
                        UptoHost(Username(parsed_authority.netloc),
                                 Password(parsed_authority.netloc),
                                 Hostname(parsed_authority.netloc)))

\* data_type == 'url.authority'
AuthorityBranch(value, checked) ==
    AuthorityChildren(Urlparse("https://" \o value, checked))

\* One child per piece of 'a=b|c=d': key, value = pair.split('=')
RECURSIVE SplitPairs(_)
SplitPairs(pieces) ==
    IF pieces = <<>> THEN <<>>
    ELSE <<Child("url.query.pair", PyStr(Split(Head(pieces), "=")[1]),
                 PyStr(Split(Head(pieces), "=")[2]))>>
         \o SplitPairs(Tail(pieces))

\* The two delimited grammars, the ampersand first
DelimitedPairsAmpFirst(s) ==
    IF AmpMatch(s) THEN Returns(SplitPairs(Split(s, "&")))
    ELSE IF PipeMatch(s) THEN Returns(SplitPairs(Split(s, "|")))
    ELSE Returns(<<>>)

\* The two delimited grammars, the pipe first
DelimitedPairs(s) ==
    IF PipeMatch(s) THEN Returns(SplitPairs(Split(s, "|")))
    ELSE IF AmpMatch(s) THEN Returns(SplitPairs(Split(s, "&")))
    ELSE Returns(<<>>)

\* The embedded URL handed on under a data_type no branch knows
EmbeddedUrlMistyped(node_value, parsed_url) ==
    IF parsed_url.ok /\ parsed_url.netloc # "" /\ parsed_url.path # ""
    THEN Returns(<<Child("URL", PyNone, node_value)>>)
    ELSE DelimitedPairs(node_value.v)

\* A parse that raises is passed over ("Guess it wasn't a URL")
EmbeddedUrl(node_value, parsed_url) ==
    IF parsed_url.ok /\ parsed_url.netloc # "" /\ parsed_url.path # ""
    THEN Returns(<<Child("url", PyNone, node_value)>>)
    ELSE DelimitedPairs(node_value.v)

\* The else branch: any other data_type
FallbackBranch(node_value, checked) ==
    IF ~IsStr(node_value) THEN Returns(<<>>)
    ELSE EmbeddedUrl(node_value, Urlparse(node_value.v, checked))

\* parse_url.run(unfurl, node)
ParseUrlRun(node, checked) ==
    CASE node.data_type = "url" -> UrlBranch(node.value.v, checked)
      [] node.data_type = "url.path" -> PathBranch(node.value.v)
      [] node.data_type \in {"url.query", "url.fragment"} -> QueryBranch(node.value.v)
      [] node.data_type = "url.authority" -> AuthorityBranch(node.value.v, checked)
      [] OTHER -> FallbackBranch(node.value, checked)

(***************************************************************************)
(* json.loads.  A scan result is [ok, val, pos]: whether a value was read, *)
(* the value, and the position after it.  Numbers are integers: the        *)
(* model's JSON texts hold no '.', and no exponent after a digit.  The     *)
(* escapes \b and \uXXXX give characters a string here cannot hold and     *)
(* are not in the model's texts.                                           *)
(***************************************************************************)
JsonWhitespace == {" ", "\t", "\n", "\r"}

NoScan == [ok |-> FALSE, val |-> PyNone, pos |-> 0]

Scanned(val, pos) == [ok |-> TRUE, val |-> val, pos |-> pos]

\* WHITESPACE.match(s, i).end()
RECURSIVE SkipWs(_, _)
SkipWs(s, i) == IF Ch(s, i) \in JsonWhitespace THEN SkipWs(s, i + 1) ELSE i

\* The character an escape stands for; "" when the escape is invalid
Unescape(c) ==
    CASE c = "\"" -> "\""
      [] c = "\\" -> "\\"
      [] c = "/" -> "/"
      [] c = "n" -> "\n"
      [] c = "r" -> "\r"
      [] c = "t" -> "\t"
      [] c = "f" -> "\f"
      [] OTHER -> ""

\* json.decoder.scanstring(s, i) in strict mode, i the position after the
\* opening quote, acc the characters read so far
\* STRINGCHUNK: the characters up to the next quote, backslash or control
\* character
RECURSIVE ScanString(_, _, _)
StringStops == {"\"", "\\", "\t", "\n", "\r", "\f"}

\* The chunk i..p-1 is kept; p holds what ended it
ScanChunkEnd(s, p, acc) ==
    CASE Ch(s, p) = "\"" -> Scanned(PyStr(acc), p + 1)
      [] Ch(s, p) = "\\" ->
            IF Unescape(Ch(s, p + 1)) = "" THEN NoScan
            ELSE ScanString(s, p + 2, acc \o Unescape(Ch(s, p + 1)))
      [] OTHER -> NoScan

ScanChunk(s, i, acc, p) == ScanChunkEnd(s, p, acc \o Slice(s, i, p - 1))

ScanStops(s, i, acc, stops) ==
    IF stops = {} THEN NoScan ELSE ScanChunk(s, i, acc, MinOf(stops))

ScanString(s, i, acc) == ScanStops(s, i, acc, {Find(s, t, i) : t \in StringStops} \ {0})

\* The end of the digits starting at i
RECURSIVE DigitsEnd(_, _)
DigitsEnd(s, i) == IF IsDigit(Ch(s, i)) THEN DigitsEnd(s, i + 1) ELSE i

\* NUMBER_RE.match(s, i): (-?(?:0|[1-9]\d*)), the integer part
ScanNumber(s, i) ==
    LET neg == Ch(s, i) = "-"
        d == IF neg THEN i + 1 ELSE i
        e == IF Ch(s, d) = "0" THEN d + 1 ELSE DigitsEnd(s, d)
        n == ToInt(Slice(s, d, e - 1))
    IN  IF ~IsDigit(Ch(s, d)) THEN NoScan
        ELSE Scanned(PyInt(IF neg THEN 0 - n ELSE n), e)

\* dict(pairs): a repeated key keeps its first place and takes the last value
RECURSIVE DictOf(_, _)
DictOf(pairs, acc) ==
    IF pairs = <<>> THEN acc
    ELSE LET kv == Head(pairs)
             at == {i \in 1..Len(acc) : acc[i].k = kv.k}
         IN  DictOf(Tail(pairs),
                    IF at = {} THEN Append(acc, kv)
                    ELSE [i \in 1..Len(acc) |-> IF i \in at THEN kv ELSE acc[i]])

RECURSIVE ScanOnce(_, _)
RECURSIVE ScanMembers(_, _, _)
RECURSIVE MemberColon(_, _, _)
RECURSIVE MemberValue(_, _, _, _)
RECURSIVE MemberEnd(_, _, _, _)
RECURSIVE MemberNext(_, _, _)
RECURSIVE ScanElements(_, _, _)
RECURSIVE ElementEnd(_, _, _)
RECURSIVE ElementNext(_, _, _)

\* json.decoder.JSONObject from the place of a key's opening quote, i, with the
\* pairs read so far: the key, the colon, the value, then '}' or ','
ScanMembers(s, i, pairs) ==
    IF Ch(s, i) # "\"" THEN NoScan ELSE MemberColon(s, ScanString(s, i + 1, ""), pairs)

MemberColon(s, key, pairs) ==
    IF ~key.ok THEN NoScan ELSE MemberValue(s, key.val.v, SkipWs(s, key.pos), pairs)

MemberValue(s, k, colon, pairs) ==
    IF Ch(s, colon) # ":" THEN NoScan
    ELSE MemberEnd(s, k, ScanOnce(s, SkipWs(s, colon + 1)), pairs)

MemberEnd(s, k, value, pairs) ==
    IF ~value.ok THEN NoScan
    ELSE MemberNext(s, SkipWs(s, value.pos), Append(pairs, [k |-> k, v |-> value.val]))

MemberNext(s, after, pairs) ==
    IF Ch(s, after) = "}" THEN Scanned(PyDict(DictOf(pairs, <<>>)), after + 1)
    ELSE IF Ch(s, after) = "," THEN ScanMembers(s, SkipWs(s, after + 1), pairs)
    ELSE NoScan

\* json.decoder.JSONArray from the place of an element, i, with the elements
\* read so far: the value, then ']' or ','
ScanElements(s, i, elems) == ElementEnd(s, ScanOnce(s, i), elems)

ElementEnd(s, value, elems) ==
    IF ~value.ok THEN NoScan
    ELSE ElementNext(s, SkipWs(s, value.pos), Append(elems, value.val))

ElementNext(s, after, elems) ==
    IF Ch(s, after) = "]" THEN Scanned(PyList(elems), after + 1)
    ELSE IF Ch(s, after) = "," THEN ScanElements(s, SkipWs(s, after + 1), elems)
    ELSE NoScan

\* The value that starts with character c at i; first is the place of the
\* first character after an opening bracket
ScanValue(s, i, c, first) ==
    CASE c = "\"" -> ScanString(s, i + 1, "")
      [] c = "{" ->
            IF Ch(s, first) = "}" THEN Scanned(PyDict(<<>>), first + 1)
            ELSE ScanMembers(s, first, <<>>)
      [] c = "[" ->
            IF Ch(s, first) = "]" THEN Scanned(PyList(<<>>), first + 1)
            ELSE ScanElements(s, first, <<>>)
      [] c = "n" /\ Slice(s, i, i + 3) = "null" -> Scanned(PyNone, i + 4)
      [] c = "t" /\ Slice(s, i, i + 3) = "true" -> Scanned(PyBool(TRUE), i + 4)
      [] c = "f" /\ Slice(s, i, i + 4) = "false" -> Scanned(PyBool(FALSE), i + 5)
      [] OTHER -> ScanNumber(s, i)

\* json.scanner.py_make_scanner's _scan_once(s, i)
ScanOnce(s, i) == ScanValue(s, i, Ch(s, i), SkipWs(s, i + 1))

\* obj, end = raw_decode(s, ...); end = WHITESPACE.match(s, end).end();
\* if end != len(s): raise JSONDecodeError("Extra data", s, end)
WholeText(s, r) == IF r.ok /\ SkipWs(s, r.pos) = Len(s) + 1 THEN r ELSE NoScan

\* json.loads(s): ok is FALSE when it raises JSONDecodeError
JsonLoads(s) == WholeText(s, ScanOnce(s, SkipWs(s, 1)))

(***************************************************************************)
(* parse_json.run                                                          *)
(***************************************************************************)
RECURSIVE JsonChildren(_)
JsonChildren(items) ==
    IF items = <<>> THEN <<>>
    ELSE <<Child("json", PyStr(Head(items).k), Head(items).v)>> \o JsonChildren(Tail(items))

\* json_obj = json.loads(node.value); assert isinstance(json_obj, dict)
PairJsonChildren(json_obj) ==
    IF ~json_obj.ok THEN Returns(<<>>)
    ELSE IF json_obj.val.t # "dict" THEN Returns(<<>>)
    ELSE Returns(JsonChildren(json_obj.val.v))

\* data_type == 'url.query.pair'
PairJsonBranch(node_value) == PairJsonChildren(JsonLoads(node_value.v))

\* if isinstance(node_value, dict): ...
DictChildren(node_value) ==
    IF node_value.t = "dict" THEN Returns(JsonChildren(node_value.v)) ELSE Returns(<<>>)

\* A string value left undecoded
NotLoaded(value, loaded) == value

\* node_value = json.loads(node_value), kept as it was when that raises
LoadedOr(value, loaded) == IF loaded.ok THEN loaded.val ELSE value

\* data_type == 'json'
JsonBranch(value) ==
    IF IsStr(value) THEN DictChildren(LoadedOr(value, JsonLoads(value.v)))
    ELSE DictChildren(value)

\* parse_json.run(unfurl, node)
ParseJsonRun(node) ==
    CASE node.data_type = "url.query.pair" -> PairJsonBranch(node.value)
      [] node.data_type = "json" -> JsonBranch(node.value)
      [] OTHER -> Returns(<<>>)

(***************************************************************************)
(* The seeds.  A seed is the string the host hands to the run; the bounds  *)
(* below bound the sets the seeds are drawn from.                          *)
(***************************************************************************)
MaxAuthTokens == 3

MaxPathTokens == 5

MaxFields == 3

MaxValueTokens == 4

MaxJsonDepth == 1

MaxRereadTokens == 3

MaxNodes == 40

\* Every concatenation of at most n tokens of T
RECURSIVE TokenStrings(_, _)
TokenStrings(T, n) ==
    IF n = 0 THEN {""}
    ELSE LET P == TokenStrings(T, n - 1) IN P \cup {p \o t : p \in P, t \in T}

\* Authorities: hosts in either case, user information, ports (numeric, zero,
\* empty, not numeric), brackets balanced or not
AuthTokens == {"h", "H", "u:p@", "@", ":", "0", "8", "[", "]"}

AuthSeeds == {"http://" \o a \o "/p" : a \in TokenStrings(AuthTokens, MaxAuthTokens)}

\* Paths: slashes leading, trailing and repeated, and ';' parameters
PathTokens == {"/", "a", ";s"}

PathSeeds ==
    {s \o a \o p \o r : s \in {"", "http:", "x:"}, a \in {"", "//h"},
                        p \in TokenStrings(PathTokens, MaxPathTokens),
                        r \in {"", "?q#f"}}

\* Every combination of a present, absent or empty scheme, authority, path,
\* query and fragment
ShapeSeeds ==
    {s \o a \o p \o q \o f :
        s \in {"", "http:", "HTTP:", "x:", "mailto:"},
        a \in {"", "//", "//h", "//H", "//u@h:8"},
        p \in {"", "/", "/p", "/p;s", "u@h"},
        q \in {"", "?", "?q"},
        f \in {"", "#", "#f"}}

UrlSeeds == AuthSeeds \cup PathSeeds \cup ShapeSeeds

\* Form-encoded fields: keys repeated, spelled with an escape, empty; values
\* empty or missing
Fields == {"x=1", "x=2", "y=1", "%78=3", "x=", "y", "=1", ""}

RECURSIVE Queries(_)
Queries(n) ==
    IF n = 1 THEN Fields
    ELSE LET P == Queries(n - 1) IN P \cup {p \o "&" \o f : p \in P, f \in Fields}

\* Values of a query pair that the fallback branch reads: key=value pieces,
\* the two delimiters ('&' escaped, as a query must carry it), an embedded URL
ValueTokens == {"a=b", "|", "%26", "=", "a", "//h/p"}

FieldSeeds == {"http://h/p" \o m \o q : m \in {"?", "#"}, q \in Queries(MaxFields)}

ValueSeeds == {"http://h/p?x=" \o v : v \in TokenStrings(ValueTokens, MaxValueTokens)}

QuerySeeds == FieldSeeds \cup ValueSeeds

\* json.dumps of a string, for the characters the texts hold
RECURSIVE JsonEscape(_)
JsonEscape(s) ==
    IF Len(s) <= 1 THEN (IF s \in {"\"", "\\"} THEN "\\" \o s ELSE s)
    ELSE JsonEscape(Upto(s, Len(s) \div 2)) \o JsonEscape(From(s, Len(s) \div 2 + 1))

JsonQuote(s) == "\"" \o JsonEscape(s) \o "\""

\* JSON texts by nesting depth: scalars, arrays and objects, objects with two
\* fields and with a repeated key, and JSON texts quoted as JSON strings
JsonAtoms == {"1", "\"s\"", "true", "null", "[1]", "{}", " {\"a\": 1} "}

RECURSIVE JsonValues(_)
JsonValues(d) ==
    IF d = 0 THEN JsonAtoms
    ELSE LET V == JsonValues(d - 1)
         IN  V \cup {"{\"a\":" \o v \o "}" : v \in V}
               \cup {"{\"a\":" \o v \o ",\"k\":1}" : v \in V}
               \cup {"{\"a\":1,\"a\":" \o v \o "}" : v \in V}
               \cup {"[" \o v \o ",1]" : v \in V}
               \cup {JsonQuote(v) : v \in V}

\* The texts and every prefix of them (cut-off, mostly invalid JSON)
JsonTexts ==
    LET V == JsonValues(MaxJsonDepth)
    IN  UNION {{Upto(v, n) : n \in 0..Len(v)} : v \in V}

\* One text three times in one query: as the value of pair x, as the value of
\* field k of pair y's object, and quoted, as the string value of field k of
\* pair z's object
JsonSeed(t) ==
    "http://h/p?x=" \o t \o "&y={\"k\":" \o t \o "}&z={\"k\":" \o JsonQuote(t) \o "}"

JsonSeeds == {JsonSeed(t) : t \in JsonTexts}

\* The seeds whose values are read again: as a URL, as delimited pairs, as JSON
\* (the whole texts, quoted once and twice among them)
RereadValueSeeds ==
    {"http://h/p?x=" \o v : v \in TokenStrings(ValueTokens, MaxRereadTokens)}

WholeJsonSeeds == {JsonSeed(t) : t \in JsonValues(MaxJsonDepth)}

RereadSeeds == ShapeSeeds \cup RereadValueSeeds \cup WholeJsonSeeds

(***************************************************************************)
(* The run: a FIFO queue of nodes, each dispatched to parse_url.run and    *)
(* then to parse_json.run; the children they add join the queue's tail.    *)
(***************************************************************************)
VARIABLES seed, checked, state, nodes, queue, done, raised

vars == <<seed, checked, state, nodes, queue, done, raised>>

\* The node add_to_queue stores: id is its place in nodes; via names the
\* parser that added it (its incoming_edge_config)
Node(child, parent_id, via) ==
    [data_type |-> child.data_type, key |-> child.key, value |-> child.value,
     parent_id |-> parent_id, via |-> via]

RECURSIVE NodesOf(_, _, _)
NodesOf(kids, parent_id, via) ==
    IF kids = <<>> THEN <<>>
    ELSE <<Node(Head(kids), parent_id, via)>> \o NodesOf(Tail(kids), parent_id, via)

\* What the parsers add for one node, the URL parser first.  A parser that
\* raises keeps what it had added, and the JSON parser is not reached.
Both(u, j) == [url |-> u.kids, json |-> j.kids, raised |-> u.raised \/ j.raised]

AfterUrl(node, u) == IF u.raised THEN Both(u, Returns(<<>>)) ELSE Both(u, ParseJsonRun(node))

Extract(node, chk) == AfterUrl(node, ParseUrlRun(node, chk))

InitOn(Seeds) ==
    /\ seed \in Seeds
    /\ checked \in (IF Has(seed, "[") THEN BOOLEAN ELSE {TRUE})
    /\ state = "Idle"
    /\ nodes = <<>>
    /\ queue = <<>>
    /\ done = <<>>
    /\ raised = {}

\* The host queues the root node
Start ==
    /\ state = "Idle"
    /\ state' = "Running"
    /\ nodes' = <<Node(Child("url", PyNone, PyStr(seed)), 0, "host")>>
    /\ queue' = <<1>>
    /\ UNCHANGED <<seed, checked, done, raised>>

\* add_to_queue, once for each child: the node is stored and queued
Enqueue(new) ==
    /\ Len(nodes) + Len(new) <= MaxNodes
    /\ nodes' = nodes \o new
    /\ queue' = Tail(queue) \o [i \in 1..Len(new) |-> Len(nodes) + i]

Offer(id, out) ==
    /\ Enqueue(NodesOf(out.url, id, "url") \o NodesOf(out.json, id, "json"))
    /\ done' = Append(done, id)
    /\ raised' = IF out.raised THEN raised \cup {id} ELSE raised

\* The oldest queued node is taken and offered to the parsers
Dispatch ==
    /\ state = "Running"
    /\ queue # <<>>
    /\ Offer(Head(queue), Extract(nodes[Head(queue)], checked))
    /\ UNCHANGED <<seed, checked, state>>

\* The queue is empty: the run is over
Finish ==
    /\ state = "Running"
    /\ queue = <<>>
    /\ state' = "Drained"
    /\ UNCHANGED <<seed, checked, nodes, queue, done, raised>>

Next == Start \/ Dispatch \/ Finish

InitUrl == InitOn(UrlSeeds)

SpecUrl == InitUrl /\ [][Next]_vars

InitQuery == InitOn(QuerySeeds)

SpecQuery == InitQuery /\ [][Next]_vars

InitJson == InitOn(JsonSeeds)

SpecJson == InitJson /\ [][Next]_vars

\* Dispatch can be taken: a node is queued and its children fit
CanDispatch ==
    /\ state = "Running"
    /\ queue # <<>>
    /\ Len(nodes) + Len(Extract(nodes[Head(queue)], checked).url)
          + Len(Extract(nodes[Head(queue)], checked).json) <= MaxNodes

\* The loop keeps taking the head of the queue while there is one: weak
\* fairness of each step, that of Dispatch written with its enabling condition
Fairness ==
    /\ WF_vars(Start)
    /\ WF_vars(Finish)
    /\ ([]<>~CanDispatch \/ []<><<Dispatch>>_vars)

InitReread == InitOn(RereadSeeds)

LiveSpec == InitReread /\ [][Next]_vars /\ Fairness

(***************************************************************************)
(* What the properties read from a state                                   *)
(***************************************************************************)
\* The node dispatched last; 0 before the first dispatch
Last == IF done = <<>> THEN 0 ELSE done[Len(done)]

LastIs(types) == Last # 0 /\ nodes[Last].data_type \in types

\* The children a parser added to node id, in the order it added them
Kids(id, via) == SelectSeq(nodes, LAMBDA n : n.parent_id = id /\ n.via = via)

OfType(kids, type) == SelectSeq(kids, LAMBDA n : n.data_type = type)

Types(kids) == [i \in 1..Len(kids) |-> kids[i].data_type]

\* What a child carries: its type, key and value
Carried(kids) ==
    [i \in 1..Len(kids) |->
        [data_type |-> kids[i].data_type, key |-> kids[i].key, value |-> kids[i].value]]

IsStrValue(n, s) == n.value.t = "str" /\ n.value.v = s

\* The value of the only child of a type; "" when there is none
ValueOfType(kids, type) ==
    IF OfType(kids, type) = <<>> THEN "" ELSE OfType(kids, type)[1].value.v

FallbackTypes ==
    {"url.scheme", "url.hostname", "url.username", "url.password", "url.port",
     "url.path.segment", "url.query.pair", "json"}

\* C1: no call of a parser ends by raising: whatever the node, the call returns.
ExtractorsNeverRaise == raised = {}

\* No node is dispatched twice
EachDispatchedOnce == \A i, j \in 1..Len(done) : done[i] = done[j] => i = j

\* The run is over: nothing queued, every node dispatched
AllDrained == state = "Drained" /\ queue = <<>> /\ Len(done) = Len(nodes)

\* C2: the run dispatches each node once and reaches Drained with nothing queued
\* and every node dispatched, whatever the seed.
RunAlwaysDrains == []EachDispatchedOnce /\ <>AllDrained

\* A drained run in which the fallback re-read a value as a URL: a url node
\* that is not the root, carrying its parent's value, and decomposed in its turn
ReinterpretedRunDrained ==
    /\ AllDrained
    /\ \E i \in 1..Len(nodes) :
          /\ nodes[i].data_type = "url"
          /\ nodes[i].parent_id # 0
          /\ nodes[i].value = nodes[nodes[i].parent_id].value
          /\ Kids(i, "url") # <<>>

\* The five values joined as scheme://authority path ?query #fragment
Rejoined(kids) ==
    ValueOfType(kids, "url.scheme") \o "://"
    \o ValueOfType(kids, "url.hostname") \o ValueOfType(kids, "url.authority")
    \o ValueOfType(kids, "url.path")
    \o "?" \o ValueOfType(kids, "url.query")
    \o "#" \o ValueOfType(kids, "url.fragment")

HasAllFive(kids) ==
    /\ Len(kids) = 5
    /\ \A t \in {"url.scheme", "url.path", "url.query", "url.fragment"} :
          Len(OfType(kids, t)) = 1
    /\ Len(OfType(kids, "url.hostname")) + Len(OfType(kids, "url.authority")) = 1

\* C3: when a url node gets all five children (scheme, hostname or authority,
\* path, query, fragment), their values joined as scheme://authority path ?query
\* #fragment are the node's value, character for character.
RoundTripLossless ==
    (LastIs({"url"}) /\ HasAllFive(Kids(Last, "url")))
        => Rejoined(Kids(Last, "url")) = nodes[Last].value.v

\* The authority is a host name or an IPv4 address: no IPv6 bracket
Unbracketed(authority) == ~Has(authority, "[") /\ ~Has(authority, "]")

\* No '@' of user information, no ':' of a port
IsBare(authority) == ~Has(authority, "@") /\ ~Has(authority, ":")

HostnameOrAuthority(kids, authority) ==
    /\ Len(OfType(kids, "url.hostname")) + Len(OfType(kids, "url.authority")) = 1
    /\ IF IsBare(authority)
       THEN Len(OfType(kids, "url.hostname")) = 1
            /\ IsStrValue(OfType(kids, "url.hostname")[1], authority)
       ELSE Len(OfType(kids, "url.authority")) = 1
            /\ IsStrValue(OfType(kids, "url.authority")[1], authority)

\* C4: a url node with a non-empty authority gets exactly one of url.hostname and
\* url.authority: url.hostname, its value the authority, when the authority has
\* no user information and no port, and url.authority with the raw authority
\* otherwise.  Stated for the authorities without brackets; the calls that raise
\* are C1's.
HostnameOrAuthorityByBareHost ==
    (/\ LastIs({"url"})
     /\ Last \notin raised
     /\ Urlparse(nodes[Last].value.v, checked).netloc # ""
     /\ Unbracketed(Urlparse(nodes[Last].value.v, checked).netloc))
        => HostnameOrAuthority(Kids(Last, "url"),
                               Urlparse(nodes[Last].value.v, checked).netloc)

ExpectedAuthorityTypes(netloc) ==
    If(Truthy(Username(netloc)), <<"url.username">>)
    \o If(Truthy(Password(netloc)), <<"url.password">>)
    \o <<"url.hostname">>
    \o If(HostInfo(netloc)[2].t = "str", <<"url.port">>)

\* C5: a url.authority node gets, in this order, url.username if and only if it
\* has a username, url.password if and only if it has a password, one
\* url.hostname with a string value, and url.port with an integer value if and
\* only if it has a port, 0 included.  Stated for the authorities without
\* brackets; the calls that raise are C1's.
AuthorityChildrenAsPresent ==
    (/\ LastIs({"url.authority"})
     /\ Last \notin raised
     /\ Unbracketed(nodes[Last].value.v))
        => /\ Types(Kids(Last, "url")) = ExpectedAuthorityTypes(nodes[Last].value.v)
           /\ \A i \in 1..Len(Kids(Last, "url")) :
                 Kids(Last, "url")[i].value.t =
                     (IF Kids(Last, "url")[i].data_type = "url.port" THEN "int" ELSE "str")

\* One child for each part that is not empty, keyed by the part's place
SegmentsByPosition(kids, parts) ==
    /\ Len(kids) = Cardinality({i \in 1..Len(parts) : parts[i] # ""})
    /\ \A i \in 1..Len(kids) :
          /\ kids[i].data_type = "url.path.segment"
          /\ kids[i].key.t = "int"
          /\ kids[i].key.v + 1 \in 1..Len(parts)
          /\ IsStrValue(kids[i], parts[kids[i].key.v + 1])
          /\ kids[i].value.v # ""
          /\ ~Has(kids[i].value.v, "/")
          /\ (i > 1 => kids[i - 1].key.v < kids[i].key.v)

\* C6: a url.path node gets url.path.segment children only when its value has
\* more than two parts between '/'s; then one child for each part that is not
\* empty, left to right, its value the part and its key the part's place in the
\* split, counted from 0.
PathSegmentsByPosition ==
    LastIs({"url.path"})
        => IF Count(nodes[Last].value.v, "/") + 1 > 2
           THEN SegmentsByPosition(Kids(Last, "url"), Split(nodes[Last].value.v, "/"))
           ELSE Kids(Last, "url") = <<>>

\* The path /a//a dispatched: two children, keyed 1 and 3
PathWithGapDispatched ==
    /\ LastIs({"url.path"})
    /\ nodes[Last].value.v = "/a//a"
    /\ Len(Kids(Last, "url")) = 2
    /\ Kids(Last, "url")[1].key.v = 1
    /\ Kids(Last, "url")[2].key.v = 3

\* The values the children of one key carry, in order
ValuesCarried(kids, key) ==
    LET mine == SelectSeq(kids, LAMBDA n : n.key.v = key)
    IN  [i \in 1..Len(mine) |-> mine[i].value.v]

DuplicatesKept(kids, occurrences) ==
    /\ Len(kids) = Len(occurrences)
    /\ \A i \in 1..Len(kids) :
          /\ kids[i].data_type = "url.query.pair"
          /\ kids[i].key.t = "str"
          /\ kids[i].value.t = "str"
    /\ \A i \in 1..Len(occurrences) :
          ValuesCarried(kids, occurrences[i][1]) = ValuesOf(occurrences, occurrences[i][1])

\* C7: a url.query or url.fragment node gets one url.query.pair child for each
\* key/value occurrence parsed from it; the children of one key carry its values
\* in their order of appearance, so a key that appears n times has n children.
DuplicateKeysKept ==
    LastIs({"url.query", "url.fragment"})
        => DuplicatesKept(Kids(Last, "url"), ParseQsl(nodes[Last].value.v))

\* The query x=1&y=1&x=2 dispatched: x's two values stay two children
TwoValuesOneKey ==
    /\ LastIs({"url.query"})
    /\ nodes[Last].value.v = "x=1&y=1&x=2"
    /\ Len(Kids(Last, "url")) = 3
    /\ ValuesCarried(Kids(Last, "url"), "x") = <<"1", "2">>

\* if parsed_url.netloc and parsed_url.path
IsEmbeddedUrl(parsed_url) == parsed_url.ok /\ parsed_url.netloc # "" /\ parsed_url.path # ""

RECURSIVE JoinPairs(_, _)
JoinPairs(kids, d) ==
    IF kids = <<>> THEN ""
    ELSE Head(kids).key.v \o "=" \o Head(kids).value.v
         \o (IF Len(kids) > 1 THEN d ELSE "") \o JoinPairs(Tail(kids), d)

PairsSplitOn(kids, s, d) ==
    /\ Len(kids) = Count(s, d) + 1
    /\ \A i \in 1..Len(kids) :
          /\ kids[i].data_type = "url.query.pair"
          /\ ~Has(kids[i].key.v, d)
          /\ ~Has(kids[i].value.v, d)
    /\ JoinPairs(kids, d) = s

OneGrammar(kids, value, parsed_url) ==
    CASE IsEmbeddedUrl(parsed_url) ->
            Carried(kids) = <<Child("url", PyNone, value)>>
      [] ~IsEmbeddedUrl(parsed_url) /\ PipeMatch(value.v) -> PairsSplitOn(kids, value.v, "|")
      [] ~IsEmbeddedUrl(parsed_url) /\ ~PipeMatch(value.v) /\ AmpMatch(value.v) ->
            PairsSplitOn(kids, value.v, "&")
      [] OTHER -> kids = <<>>

\* C8: in the fallback branch one grammar at most is applied to a string value:
\* an embedded URL (authority and path not empty) gets one url child with the
\* same value; otherwise a value matching the pipe grammar gets its pipe-split
\* pairs, also when it matches the ampersand grammar; otherwise a value matching
\* the ampersand grammar gets its ampersand-split pairs; otherwise nothing.
FallbackAppliesOneGrammar ==
    (LastIs(FallbackTypes) /\ nodes[Last].value.t = "str")
        => OneGrammar(Kids(Last, "url"), nodes[Last].value,
                      Urlparse(nodes[Last].value.v, checked))

\* The value a=b|&a=b dispatched: it matches both grammars and is split on the pipe
PipeWinsOverAmpersand ==
    /\ LastIs({"url.query.pair"})
    /\ nodes[Last].value.v = "a=b|&a=b"
    /\ PipeMatch(nodes[Last].value.v)
    /\ AmpMatch(nodes[Last].value.v)
    /\ Len(Kids(Last, "url")) = 2
    /\ Kids(Last, "url")[2].key.v = "&a"

\* The text is JSON for an object
DecodesToObject(text) == JsonLoads(text).ok /\ JsonLoads(text).val.t = "dict"

\* C9 as stated: a url.query.pair node gets json children if and only if its
\* value decodes as JSON to an object.
PairEmitsIffObject ==
    LastIs({"url.query.pair"})
        => (Kids(Last, "json") # <<>> <=> DecodesToObject(nodes[Last].value.v))

\* One child for each field, in field order
ByField(kids, items) ==
    /\ Len(kids) = Len(items)
    /\ \A i \in 1..Len(kids) :
          /\ kids[i].data_type = "json"
          /\ kids[i].key = PyStr(items[i].k)
          /\ kids[i].value = items[i].v

PairChildrenByField(kids, text) ==
    IF DecodesToObject(text) THEN ByField(kids, JsonLoads(text).val.v) ELSE kids = <<>>

SameContent(value, text) ==
    \/ value.t = "str" /\ value.v = text
    \/ value.t = "dict" /\ DecodesToObject(text) /\ value = JsonLoads(text).val

\* C9 as amended: a url.query.pair node gets json children if and only if its
\* value decodes as JSON to an object with at least one field; the children are
\* one for each field, in field order, keyed by the field's name and carrying its
\* value; and a json node whose value is that mapping, or the same text as a
\* string, gets the same children.
PairJsonChildrenByField ==
    /\ LastIs({"url.query.pair"})
          => /\ PairChildrenByField(Kids(Last, "json"), nodes[Last].value.v)
             /\ (Kids(Last, "json") # <<>> <=>
                    (DecodesToObject(nodes[Last].value.v)
                     /\ JsonLoads(nodes[Last].value.v).val.v # <<>>))
    /\ AllDrained
          => \A p, j \in 1..Len(nodes) :
                (/\ nodes[p].data_type = "url.query.pair"
                 /\ nodes[j].data_type = "json"
                 /\ SameContent(nodes[j].value, nodes[p].value.v))
                    => Carried(Kids(j, "json")) = Carried(Kids(p, "json"))

\* A drained run with a pair whose text decodes to an object with fields, a json
\* node holding that mapping and a json node holding that text: all three with
\* children
SameChildrenThreeWays ==
    /\ AllDrained
    /\ \E p, j, k \in 1..Len(nodes) :
          /\ nodes[p].data_type = "url.query.pair"
          /\ Kids(p, "json") # <<>>
          /\ nodes[j].data_type = "json"
          /\ nodes[j].value.t = "dict"
          /\ SameContent(nodes[j].value, nodes[p].value.v)
          /\ nodes[k].data_type = "json"
          /\ nodes[k].value.t = "str"
          /\ SameContent(nodes[k].value, nodes[p].value.v)
          /\ Kids(k, "json") # <<>>

\* C10: a url node whose value parses with an empty authority gets no child,
\* whatever its scheme, path, query and fragment.
NoAuthorityNoChildren ==
    (/\ LastIs({"url"})
     /\ Urlparse(nodes[Last].value.v, checked).ok
     /\ Urlparse(nodes[Last].value.v, checked).netloc = "")
        => Kids(Last, "url") = <<>> /\ Kids(Last, "json") = <<>>

\* mailto:u@h?q#f dispatched: a scheme, a path, a query and a fragment, no
\* authority, and the root stays the only node
SchemeAndPathWithoutAuthority ==
    /\ AllDrained
    /\ seed = "mailto:u@h?q#f"
    /\ Urlparse(seed, checked).scheme = "mailto"
    /\ Urlparse(seed, checked).path = "u@h"
    /\ Urlparse(seed, checked).query = "q"
    /\ Urlparse(seed, checked).fragment = "f"
    /\ Len(nodes) = 1

====
